---- MODULE Spec2Model ----
(***************************************************************************)
(* Model of the Pydantic compilation pipeline of                           *)
(* plugin-morphe-pydantic-types: CompileModel / generateModelContent /     *)
(* CompileAllModels (pkg/compile/compile_models.go), the ImportTracker     *)
(* (pkg/compile/import_tracker.go) and CompileStructure /                  *)
(* generateStructureContent / CompileAllStructures.                        *)
(*                                                                         *)
(* Strings are TLA+ strings; text is handled character by character with   *)
(* Len, \o and SubSeq, so that rendering a type ("Union['A', 'B']") and    *)
(* reading it back are two different computations.                         *)
(***************************************************************************)
EXTENDS Integers, Sequences, FiniteSets, TLC

(***************************************************************************)
(* Bounds of the model.                                                    *)
(***************************************************************************)
\* longest "for" list of a polymorphic relation
MaxFor == 2
\* most relations of the model under compilation
MaxRels == 2
\* most declared fields of the model under compilation
MaxFields == 2
\* compilations of the same registry that are compared with one another
MaxRuns == 2
\* calls made on an ImportTracker driven by itself
MaxCalls == 3

(***************************************************************************)
(* Go's strings package, as far as the pipeline uses it.                   *)
(***************************************************************************)
CharAt(s, i) == SubSeq(s, i, i)

HasPrefix(s, p) == Len(s) >= Len(p) /\ SubSeq(s, 1, Len(p)) = p

HasSuffix(s, p) == Len(s) >= Len(p) /\ SubSeq(s, Len(s) - Len(p) + 1, Len(s)) = p

TrimPrefix(s, p) == IF HasPrefix(s, p) THEN SubSeq(s, Len(p) + 1, Len(s)) ELSE s

TrimSuffix(s, p) == IF HasSuffix(s, p) THEN SubSeq(s, 1, Len(s) - Len(p)) ELSE s

\* strings.Contains
Contains(s, sub) ==
    \E i \in 1..(Len(s) - Len(sub) + 1) : SubSeq(s, i, i + Len(sub) - 1) = sub

\* strings.Index, 0 when sub does not occur (Go: -1)
IndexOf(s, sub) ==
    IF Contains(s, sub)
    THEN CHOOSE i \in 1..(Len(s) - Len(sub) + 1) :
            /\ SubSeq(s, i, i + Len(sub) - 1) = sub
            /\ \A j \in 1..(i - 1) : SubSeq(s, j, j + Len(sub) - 1) # sub
    ELSE 0

\* strings.Split with a non-empty separator
RECURSIVE Split(_, _)
Split(s, sep) ==
    LET i == IndexOf(s, sep)
    IN  IF i = 0 THEN <<s>>
        ELSE <<SubSeq(s, 1, i - 1)>> \o Split(SubSeq(s, i + Len(sep), Len(s)), sep)

\* strings.Join
RECURSIVE Join(_, _)
Join(parts, sep) ==
    IF Len(parts) = 0 THEN ""
    ELSE IF Len(parts) = 1 THEN parts[1]
    ELSE parts[1] \o sep \o Join(Tail(parts), sep)

\* strings.Trim: strip the leading and trailing characters that are in cutset
RECURSIVE TrimLeft(_, _)
TrimLeft(s, cutset) ==
    IF Len(s) > 0 /\ Contains(cutset, CharAt(s, 1))
    THEN TrimLeft(SubSeq(s, 2, Len(s)), cutset) ELSE s

RECURSIVE TrimRight(_, _)
TrimRight(s, cutset) ==
    IF Len(s) > 0 /\ Contains(cutset, CharAt(s, Len(s)))
    THEN TrimRight(SubSeq(s, 1, Len(s) - 1), cutset) ELSE s

Trim(s, cutset) == TrimRight(TrimLeft(s, cutset), cutset)

RECURSIVE ConcatFrom(_, _)
ConcatFrom(parts, i) ==
    IF i > Len(parts) THEN "" ELSE parts[i] \o ConcatFrom(parts, i + 1)

\* strings.ReplaceAll for a one-character old
ReplaceAll(s, old, new) ==
    ConcatFrom([i \in 1..Len(s) |-> IF CharAt(s, i) = old THEN new ELSE CharAt(s, i)], 1)

\* strings.Fields: the maximal runs of non-space characters
RECURSIVE Fields(_)
Fields(s) ==
    LET t == TrimLeft(s, " ")
        i == IndexOf(t, " ")
    IN  IF Len(t) = 0 THEN <<>>
        ELSE IF i = 0 THEN <<t>>
        ELSE <<SubSeq(t, 1, i - 1)>> \o Fields(SubSeq(t, i, Len(t)))

(***************************************************************************)
(* Byte order of strings (sort.Strings compares byte-wise).  Ascii lists   *)
(* the characters the model uses in ASCII order.                           *)
(***************************************************************************)
Ascii == " \"',ABCDEFGHIJKLMNOPQRSTUVWXYZ[]_abcdefghijklmnopqrstuvwxyz"

UpperLetters == "ABCDEFGHIJKLMNOPQRSTUVWXYZ"

LowerLetters == "abcdefghijklmnopqrstuvwxyz"

Ord(c) == IndexOf(Ascii, c)

RECURSIVE StrLess(_, _)
StrLess(a, b) ==
    IF Len(b) = 0 THEN FALSE
    ELSE IF Len(a) = 0 THEN TRUE
    ELSE IF CharAt(a, 1) = CharAt(b, 1)
         THEN StrLess(SubSeq(a, 2, Len(a)), SubSeq(b, 2, Len(b)))
         ELSE Ord(CharAt(a, 1)) < Ord(CharAt(b, 1))

IsSorted(seq) == \A i \in 1..(Len(seq) - 1) : StrLess(seq[i], seq[i + 1])

\* the keys in decreasing byte order: what the lists would hold were the
\* sorting of map keys reversed
SortStringsDescending(keys) ==
    [i \in 1..Cardinality(keys) |->
        CHOOSE k \in keys : Cardinality({j \in keys : StrLess(k, j)}) = i - 1]

\* sort.Strings over the keys of a map: the keys in increasing byte order (the
\* key at position i has exactly i - 1 keys below it)
SortStrings(keys) ==
    [i \in 1..Cardinality(keys) |->
        CHOOSE k \in keys : Cardinality({j \in keys : StrLess(j, k)}) = i - 1]

IsUpper(c) == Len(c) = 1 /\ Contains(UpperLetters, c)

IsLower(c) == Len(c) = 1 /\ Contains(LowerLetters, c)

ToLowerChar(c) == IF IsUpper(c) THEN CharAt(LowerLetters, IndexOf(UpperLetters, c)) ELSE c

ToUpperChar(c) == IF IsLower(c) THEN CharAt(UpperLetters, IndexOf(LowerLetters, c)) ELSE c

(***************************************************************************)
(* pkg/formatdef: identifier case conversion and the type values.  The     *)
(* package is not among the sources at hand; it is modelled from its use   *)
(* in compile_models.go and from the outputs documented in README.md       *)
(* (company_id, tax_id, commentable_type).                                 *)
(***************************************************************************)
\* ToSnakeCase: an underscore goes before an upper-case letter that follows a
\* lower-case letter or that ends a run of upper-case letters ("TaxID" -> "tax_id")
RECURSIVE SnakeFrom(_, _)
SnakeFrom(s, i) ==
    IF i > Len(s) THEN ""
    ELSE LET c == CharAt(s, i)
             prev == IF i > 1 THEN CharAt(s, i - 1) ELSE ""
             next == IF i < Len(s) THEN CharAt(s, i + 1) ELSE ""
             brk == /\ IsUpper(c)
                    /\ i > 1
                    /\ \/ IsLower(prev)
                       \/ IsUpper(prev) /\ IsLower(next)
         IN  (IF brk THEN "_" ELSE "") \o ToLowerChar(c) \o SnakeFrom(s, i + 1)

ToSnakeCase(s) == SnakeFrom(s, 1)

Capitalize(s) == IF Len(s) = 0 THEN "" ELSE ToUpperChar(CharAt(s, 1)) \o SubSeq(s, 2, Len(s))

Uncapitalize(s) == IF Len(s) = 0 THEN "" ELSE ToLowerChar(CharAt(s, 1)) \o SubSeq(s, 2, Len(s))

RECURSIVE CapitalizeAll(_)
CapitalizeAll(parts) ==
    IF Len(parts) = 0 THEN "" ELSE Capitalize(parts[1]) \o CapitalizeAll(Tail(parts))

\* ToCamelCase: the words between underscores joined, the first one starting in
\* lower case and the others in upper case ("Person_id" -> "personId")
ToCamelCase(s) ==
    LET parts == Split(s, "_")
    IN  Uncapitalize(parts[1]) \o CapitalizeAll(Tail(parts))

\* formatdef.BasicType{Name} and formatdef.ArrayType{ElementType}
BasicType(name) == [kind |-> "basic", name |-> name]

ArrayType(elem) == [kind |-> "array", elem |-> elem]

TypeString == BasicType("str")

TypeAny == BasicType("Any")

\* Type.GetName(): the Python spelling of a type
RECURSIVE GetName(_)
GetName(t) == IF t.kind = "array" THEN "List[" \o GetName(t.elem) \o "]" ELSE t.name

\* the type assertion field.Type.(formatdef.BasicType)
IsBasicTypeValue(t) == t.kind = "basic"

(***************************************************************************)
(* pkg/typemap.GetFieldType: Morphe scalar types to Python types; any      *)
(* other name is kept as a reference to the definition of that name.       *)
(***************************************************************************)
GetFieldType(morpheType) ==
    CASE morpheType = "String" -> BasicType("str")
      [] morpheType = "AutoIncrement" -> BasicType("int")
      [] morpheType = "Integer" -> BasicType("int")
      [] morpheType = "Float" -> BasicType("float")
      [] morpheType = "Boolean" -> BasicType("bool")
      [] morpheType = "Time" -> BasicType("datetime")
      [] OTHER -> BasicType(morpheType)

(***************************************************************************)
(* morphe-go yamlops: the relation-kind predicates CompileModel calls.     *)
(***************************************************************************)
RelationKinds ==
    {"ForOne", "ForMany", "HasOne", "HasMany",
     "ForOnePoly", "ForManyPoly", "HasOnePoly", "HasManyPoly"}

IsRelationPoly(relationType) == HasSuffix(relationType, "Poly")

IsRelationFor(relationType) == HasPrefix(relationType, "For")

IsRelationOne(relationType) == Contains(relationType, "One")

IsRelationMany(relationType) == Contains(relationType, "Many")

GetRelationTargetName(relationName, aliased) ==
    IF aliased # "" THEN aliased ELSE relationName

(***************************************************************************)
(* The schema registry (read-only during compilation).                     *)
(*   registry.models     : model name -> [Name, Fields, Related]           *)
(*   registry.enums      : set of enum names                               *)
(*   registry.structures : structure name -> [Name, Fields]                *)
(* Fields maps a field name to its Morphe type; Related maps a relation    *)
(* name to [Type, For, Through, Aliased].                                  *)
(***************************************************************************)
Relation(type, for, through, aliased) ==
    [Type |-> type, For |-> for, Through |-> through, Aliased |-> aliased]

\* the models that own a polymorphic relation named `through`
ThroughOwners(through, r) ==
    {modelName \in DOMAIN r.models :
        \E relName \in DOMAIN r.models[modelName].Related :
            /\ relName = through
            /\ IsRelationPoly(r.models[modelName].Related[relName].Type)}

\* resolvePolymorphicThrough ranges over a Go map: the first owner met is
\* returned, and the iteration order is not fixed, so every owner is a
\* possible result; with no owner the call returns an error.
ResolvePolymorphicThrough(through, r) ==
    IF ThroughOwners(through, r) = {}
    THEN {[name |-> "", err |-> TRUE]}
    ELSE {[name |-> modelName, err |-> FALSE] : modelName \in ThroughOwners(through, r)}

\* the relations of a model for which CompileModel calls resolvePolymorphicThrough
NeedsThrough(relation) ==
    /\ IsRelationPoly(relation.Type)
    /\ Len(relation.For) = 0
    /\ relation.Through # ""

NoResolution == [name |-> "", err |-> FALSE]

\* one result of resolvePolymorphicThrough for each relation that asks for one
ThroughChoices(model, r) ==
    {pick \in [DOMAIN model.Related ->
                {NoResolution} \cup
                UNION {ResolvePolymorphicThrough(model.Related[n].Through, r) :
                          n \in DOMAIN model.Related}] :
        \A n \in DOMAIN model.Related :
            IF NeedsThrough(model.Related[n])
            THEN pick[n] \in ResolvePolymorphicThrough(model.Related[n].Through, r)
            ELSE pick[n] = NoResolution}

(***************************************************************************)
(* CompileModel.  The result is the formatdef.Struct [Name, Fields]; Origin *)
(* is a history component, parallel to Fields, recording which loop of     *)
(* CompileModel appended each field and for which declaration.  No         *)
(* operator of the pipeline reads it.                                      *)
(***************************************************************************)
Field(name, type) == [Name |-> name, Type |-> type]

\* compile_models.go 44-53: the declared fields in sorted order
DeclaredFields(model) ==
    LET fieldNames == SortStrings(DOMAIN model.Fields)
    IN  [i \in 1..Len(fieldNames) |->
            Field(fieldNames[i], GetFieldType(model.Fields[fieldNames[i]]))]

\* the foreign-key fields were the polymorphic case of ForOne not told apart
ForeignKeyFieldsPlainForOneOnly(relatedName, relation) ==
    LET relationType == relation.Type
    IN  IF IsRelationFor(relationType) /\ IsRelationOne(relationType)
        THEN <<Field(ToCamelCase(relatedName \o "_id"), TypeString)>>
        ELSE <<>>

\* compile_models.go 66-95: the foreign-key fields one relation contributes
ForeignKeyFields(relatedName, relation) ==
    LET relationType == relation.Type
    IN  IF IsRelationPoly(relationType) /\ IsRelationFor(relationType)
            /\ IsRelationOne(relationType)
        THEN <<Field(ToCamelCase(relatedName \o "_type"), TypeString),
               Field(ToCamelCase(relatedName \o "_id"), TypeString)>>
        ELSE IF IsRelationPoly(relationType) THEN <<>>
        ELSE IF IsRelationFor(relationType) /\ IsRelationOne(relationType)
        THEN <<Field(ToCamelCase(relatedName \o "_id"), TypeString)>>
        ELSE <<>>

\* compile_models.go 112-119: the text of the Union type of a "for" list
RECURSIVE UnionMembersText(_, _)
UnionMembersText(for, i) ==
    IF i > Len(for) THEN ""
    ELSE (IF i > 1 THEN ", " ELSE "") \o "'" \o for[i] \o "'"
            \o UnionMembersText(for, i + 1)

\* the Union text with its members in the reverse of the order of the list
UnionTypeNameReversed(for) ==
    "Union[" \o UnionMembersText([i \in 1..Len(for) |-> for[Len(for) + 1 - i]], 1) \o "]"

UnionTypeName(for) == "Union[" \o UnionMembersText(for, 1) \o "]"

\* the navigation type were the alias of a plain relation ignored
NavigationTypeNoAlias(relatedName, relation, resolved) ==
    LET inner == IF IsRelationPoly(relation.Type)
                 THEN IF Len(relation.For) > 0 THEN BasicType(UnionTypeName(relation.For))
                      ELSE IF relation.Through # "" /\ ~resolved.err
                      THEN BasicType(resolved.name)
                      ELSE TypeAny
                 ELSE BasicType(relatedName)
    IN  IF IsRelationMany(relation.Type) THEN ArrayType(inner) ELSE inner

\* compile_models.go 103-142: the type of the navigation field of a relation
\* (below, after two variants of it)
\* the navigation type were a "through" reference never resolved
NavigationTypeThroughAny(relatedName, relation, resolved) ==
    LET inner == IF IsRelationPoly(relation.Type)
                 THEN IF Len(relation.For) > 0 THEN BasicType(UnionTypeName(relation.For))
                      ELSE TypeAny
                 ELSE BasicType(GetRelationTargetName(relatedName, relation.Aliased))
    IN  IF IsRelationMany(relation.Type) THEN ArrayType(inner) ELSE inner

NavigationType(relatedName, relation, resolved) ==
    LET relationType == relation.Type
        targetModelName == GetRelationTargetName(relatedName, relation.Aliased)
        navType ==
            IF IsRelationPoly(relationType)
            THEN IF Len(relation.For) > 0
                 THEN BasicType(UnionTypeName(relation.For))
                 ELSE IF relation.Through # ""
                 THEN IF resolved.err THEN TypeAny ELSE BasicType(resolved.name)
                 ELSE TypeAny
            ELSE BasicType(targetModelName)
    IN  IF IsRelationMany(relationType) THEN ArrayType(navType) ELSE navType

\* compile_models.go 144-149
NavigationField(relatedName, relation, resolved) ==
    Field("_nav_" \o relatedName, NavigationType(relatedName, relation, resolved))

RECURSIVE ForeignKeyLoop(_, _, _)
ForeignKeyLoop(model, relatedNames, i) ==
    IF i > Len(relatedNames) THEN <<>>
    ELSE ForeignKeyFields(relatedNames[i], model.Related[relatedNames[i]])
            \o ForeignKeyLoop(model, relatedNames, i + 1)

RECURSIVE ForeignKeyOrigins(_, _, _)
ForeignKeyOrigins(model, relatedNames, i) ==
    IF i > Len(relatedNames) THEN <<>>
    ELSE [k \in 1..Len(ForeignKeyFields(relatedNames[i], model.Related[relatedNames[i]])) |->
            [loop |-> "foreignKey", of |-> relatedNames[i]]]
            \o ForeignKeyOrigins(model, relatedNames, i + 1)

CompileModel(model, r, pick) ==
    LET declared == DeclaredFields(model)
        relatedNames == SortStrings(DOMAIN model.Related)
        foreignKeys == ForeignKeyLoop(model, relatedNames, 1)
        navigation == [i \in 1..Len(relatedNames) |->
                        NavigationField(relatedNames[i], model.Related[relatedNames[i]],
                                        pick[relatedNames[i]])]
    IN  [Name |-> model.Name,
         Fields |-> declared \o foreignKeys \o navigation,
         Origin |-> [i \in 1..Len(declared) |-> [loop |-> "declared", of |-> declared[i].Name]]
                    \o ForeignKeyOrigins(model, relatedNames, 1)
                    \o [i \in 1..Len(relatedNames) |->
                            [loop |-> "navigation", of |-> relatedNames[i]]],
         err |-> FALSE]

(***************************************************************************)
(* Helpers of package compile that the generators call and that are not    *)
(* among the sources at hand: resolveFieldType, extractInnerType,          *)
(* SanitizePythonIdentifier, and formatdef.ContentBuilder.                 *)
(***************************************************************************)
\* the kind under which the registry knows a name
ResolveFieldType(typeName, r) ==
    IF typeName \in r.enums THEN "enum"
    ELSE IF typeName \in DOMAIN r.models THEN "model"
    ELSE IF typeName \in DOMAIN r.structures THEN "structure"
    ELSE "unknown"

\* the type inside an Optional[...] or List[...] wrapper, else the type itself
ExtractInnerType(typeName) ==
    IF HasPrefix(typeName, "Optional[") /\ HasSuffix(typeName, "]")
    THEN SubSeq(typeName, 10, Len(typeName) - 1)
    ELSE IF HasPrefix(typeName, "List[") /\ HasSuffix(typeName, "]")
    THEN SubSeq(typeName, 6, Len(typeName) - 1)
    ELSE typeName

PythonReservedWords ==
    {"and", "as", "class", "def", "del", "for", "from", "global", "if", "import",
     "in", "is", "not", "or", "pass", "return", "try", "while", "with"}

\* a reserved word gets an underscore appended
SanitizePythonIdentifier(name) ==
    IF name \in PythonReservedWords THEN name \o "_" ELSE name

\* NewContentBuilder("    "): one indentation step
IndentUnit == "    "

\* ContentBuilder.Line at one level of indentation
Indented(line) == IF line = "" THEN "" ELSE IndentUnit \o line

IndentAll(lines) == [i \in 1..Len(lines) |-> Indented(lines[i])]

(***************************************************************************)
(* ImportTracker (import_tracker.go).                                      *)
(***************************************************************************)
NewImportTracker ==
    [pydantic |-> <<>>, typing |-> <<>>, datetime |-> FALSE, enums |-> {}, models |-> {}]

ContainsString(slice, item) == \E i \in 1..Len(slice) : slice[i] = item

AddPydantic(it, imp) ==
    IF ContainsString(it.pydantic, imp) THEN it
    ELSE [it EXCEPT !.pydantic = Append(@, imp)]

AddTyping(it, imp) ==
    IF ContainsString(it.typing, imp) THEN it
    ELSE [it EXCEPT !.typing = Append(@, imp)]

AddTypingIf(it, cond, imp) == IF cond THEN AddTyping(it, imp) ELSE it

SeqToSet(seq) == {seq[i] : i \in 1..Len(seq)}

IsBasicType(typeName) ==
    typeName \in {"str", "int", "float", "bool", "datetime", "Any", "None"}

\* extractAllInnerTypes: the names left when brackets and commas are blanked
ExtractAllInnerTypes(typeName) ==
    LET cleaned == ReplaceAll(ReplaceAll(ReplaceAll(typeName, "[", " "), "]", " "), ",", " ")
        parts == Fields(cleaned)
        trimmed == [i \in 1..Len(parts) |-> Trim(parts[i], "'\"")]
        Keep(part) == part # "" /\ ~Contains(part, "|")
    IN  SelectSeq(trimmed, Keep)

\* the inner types of typeName that the registry resolves to `kind`
InnerTypesOfKind(typeName, kind, r) ==
    {innerType \in SeqToSet(ExtractAllInnerTypes(typeName)) :
        /\ innerType # ""
        /\ ~IsBasicType(innerType)
        /\ ResolveFieldType(innerType, r) = kind}

\* the typing imports TrackFieldType asks for, in the order it asks for them
TypingNeeds(typeName, r) ==
    LET Needed(imp) ==
            \/ imp = "Optional" /\ Contains(typeName, "Optional[")
            \/ imp = "List" /\ Contains(typeName, "List[")
            \/ imp = "Union" /\ Contains(typeName, "Union[")
            \/ imp = "Dict" /\ Contains(typeName, "Dict[")
            \/ imp = "Any" /\ Contains(typeName, "Any")
            \/ imp = "Literal" /\ Contains(typeName, "Literal[")
            \/ imp = "TYPE_CHECKING" /\ InnerTypesOfKind(typeName, "model", r) # {}
    IN  SelectSeq(<<"Optional", "List", "Union", "Dict", "Any", "Literal", "TYPE_CHECKING">>,
                  Needed)

\* AddTyping for each of imports in turn
AddTypingAll(it, imports) ==
    LET IsNew(imp) == ~ContainsString(it.typing, imp)
    IN  [it EXCEPT !.typing = @ \o SelectSeq(imports, IsNew)]

TrackFieldType(it, typeName, r) ==
    [AddTypingAll(it, TypingNeeds(typeName, r)) EXCEPT
        !.datetime = @ \/ typeName = "datetime" \/ Contains(typeName, "datetime"),
        !.enums = @ \cup InnerTypesOfKind(typeName, "enum", r),
        !.models = @ \cup InnerTypesOfKind(typeName, "model", r)]

\* the import section were the typing imports joined in the order recorded
GenerateUnsorted(it) ==
    LET enumNames == SortStrings(it.enums)
        modelNames == SortStrings(it.models)
    IN  (IF Len(it.pydantic) > 0
         THEN <<"from pydantic import " \o Join(it.pydantic, ", ")>> ELSE <<>>)
        \o (IF Len(it.typing) > 0
            THEN <<"from typing import " \o Join(it.typing, ", ")>>
            ELSE <<>>)
        \o (IF it.datetime THEN <<"from datetime import datetime">> ELSE <<>>)
        \o [i \in 1..Len(enumNames) |->
                "from ..enums." \o ToSnakeCase(enumNames[i]) \o " import " \o enumNames[i]]
        \o <<"">>
        \o (IF it.models # {}
            THEN <<"if TYPE_CHECKING:">>
                 \o IndentAll([i \in 1..Len(modelNames) |->
                        "from ." \o ToSnakeCase(modelNames[i]) \o " import " \o modelNames[i]])
            ELSE <<>>)

\* ImportTracker.Generate: the lines of the import section
Generate(it) ==
    LET enumNames == SortStrings(it.enums)
        modelNames == SortStrings(it.models)
    IN  (IF Len(it.pydantic) > 0
         THEN <<"from pydantic import " \o Join(it.pydantic, ", ")>> ELSE <<>>)
        \o (IF Len(it.typing) > 0
            THEN <<"from typing import " \o Join(SortStrings(SeqToSet(it.typing)), ", ")>>
            ELSE <<>>)
        \o (IF it.datetime THEN <<"from datetime import datetime">> ELSE <<>>)
        \o [i \in 1..Len(enumNames) |->
                "from ..enums." \o ToSnakeCase(enumNames[i]) \o " import " \o enumNames[i]]
        \o <<"">>
        \o (IF it.models # {}
            THEN <<"if TYPE_CHECKING:">>
                 \o IndentAll([i \in 1..Len(modelNames) |->
                        "from ." \o ToSnakeCase(modelNames[i]) \o " import " \o modelNames[i]])
            ELSE <<>>)

(***************************************************************************)
(* generateModelContent (compile_models.go 177-366).  The content is the   *)
(* sequence of its lines.                                                  *)
(***************************************************************************)
IsNavName(name) == HasPrefix(name, "_nav_")

\* 195-220 and 222-230: the scans that feed the import tracker
RECURSIVE ScanFields(_, _, _, _, _)
ScanFields(it, fields, i, wantNav, r) ==
    IF i > Len(fields) THEN it
    ELSE ScanFields(IF IsNavName(fields[i].Name) = wantNav
                    THEN TrackFieldType(it, GetName(fields[i].Type), r) ELSE it,
                    fields, i + 1, wantNav, r)

\* 205-211: some data field is of a basic type whose inner type is an enum
NeedsModelConfig(fields, r) ==
    \E i \in 1..Len(fields) :
        /\ ~IsNavName(fields[i].Name)
        /\ IsBasicTypeValue(fields[i].Type)
        /\ ExtractInnerType(fields[i].Type.name) # ""
        /\ ResolveFieldType(ExtractInnerType(fields[i].Type.name), r) = "enum"

\* 213-219: the keys of polymorphicTypeToNavMap
IsPolymorphicTypeField(field) ==
    /\ ~IsNavName(field.Name)
    /\ HasSuffix(field.Name, "_type")
    /\ GetName(field.Type) = "str"

PolymorphicNavName(field) == "_nav_" \o TrimSuffix(field.Name, "_type")

\* 276-283: the quoted member names read back from the text of a Union type
RECURSIVE QuoteAll(_, _)
QuoteAll(types, i) ==
    IF i > Len(types) THEN <<>>
    ELSE <<"\"" \o Trim(types[i], "'\"") \o "\"">> \o QuoteAll(types, i + 1)

AllowedTypesOf(unionType) ==
    IF HasPrefix(unionType, "Union[") /\ HasSuffix(unionType, "]")
    THEN QuoteAll(Split(SubSeq(unionType, 7, Len(unionType) - 1), ", "), 1)
    ELSE <<>>

\* 270-287: the allowed types taken from the first field named navFieldName
AllowedTypes(fields, navFieldName) ==
    IF \E i \in 1..Len(fields) : fields[i].Name = navFieldName
    THEN LET first == CHOOSE i \in 1..Len(fields) :
                        /\ fields[i].Name = navFieldName
                        /\ \A j \in 1..(i - 1) : fields[j].Name # navFieldName
         IN  AllowedTypesOf(GetName(fields[first].Type))
    ELSE <<>>

\* 293: the name test that makes a field optional
LooksLikeForeignKey(fieldName) ==
    /\ Len(fieldName) > 3
    /\ \/ SubSeq(fieldName, Len(fieldName) - 2, Len(fieldName)) = "_id"
       \/ HasSuffix(fieldName, "_type")

\* the line of a data field were the foreign-key style fields not made optional
DataFieldLineRequired(field, fields, config) ==
    LET fieldName == SanitizePythonIdentifier(ToSnakeCase(field.Name))
    IN  IF config.AddTypeHints
        THEN fieldName \o ": " \o GetName(field.Type)
        ELSE fieldName \o " = None"

\* 263-301: the line of one data field
DataFieldLine(field, fields, config) ==
    LET fieldName == SanitizePythonIdentifier(ToSnakeCase(field.Name))
        fieldType == GetName(field.Type)
        allowedTypes == AllowedTypes(fields, PolymorphicNavName(field))
    IN  IF config.AddTypeHints
        THEN IF IsPolymorphicTypeField(field)
             THEN IF Len(allowedTypes) > 0
                  THEN fieldName \o ": Literal[" \o Join(allowedTypes, ", ") \o "]"
                  ELSE fieldName \o ": str"
             ELSE IF LooksLikeForeignKey(fieldName)
             THEN fieldName \o ": Optional[" \o fieldType \o "] = None"
             ELSE fieldName \o ": " \o fieldType
        ELSE fieldName \o " = None"

\* the test were it made against the names CompileModel gives the foreign keys
HasPolyFieldsByCompiledName(fields, relName) ==
    \E i \in 1..Len(fields) :
        \/ fields[i].Name = ToCamelCase(relName \o "_type")
        \/ fields[i].Name = ToCamelCase(relName \o "_id")

\* 315-328: the navigation field is skipped when the list holds <rel>_type or <rel>_id
HasPolyFields(fields, relName) ==
    \E i \in 1..Len(fields) :
        fields[i].Name = relName \o "_type" \/ fields[i].Name = relName \o "_id"

\* 310-340: the line of one navigation field
NavFieldLine(field) ==
    LET relName == TrimPrefix(field.Name, "_nav_")
        fieldName == SanitizePythonIdentifier(ToSnakeCase(relName))
        fieldType == GetName(field.Type)
    IN  IF HasPrefix(fieldType, "List[")
        THEN fieldName \o ": Optional[" \o fieldType \o "] = None"
        ELSE IF Contains(fieldType, "Union[")
        THEN fieldName \o ": Optional[" \o fieldType \o "] = None"
        ELSE fieldName \o ": Optional['" \o fieldType \o "'] = None"

RECURSIVE DataFieldLines(_, _, _)
DataFieldLines(fields, i, config) ==
    IF i > Len(fields) THEN <<>>
    ELSE (IF IsNavName(fields[i].Name) THEN <<>>
          ELSE <<DataFieldLine(fields[i], fields, config)>>)
            \o DataFieldLines(fields, i + 1, config)

RECURSIVE NavFieldLines(_, _)
NavFieldLines(fields, i) ==
    IF i > Len(fields) THEN <<>>
    ELSE (IF ~IsNavName(fields[i].Name)
             \/ HasPolyFields(fields, TrimPrefix(fields[i].Name, "_nav_"))
          THEN <<>>
          ELSE <<NavFieldLine(fields[i])>>)
            \o NavFieldLines(fields, i + 1)

\* 343-360: the configuration block, in the Pydantic v2 or the v1 spelling
ModelConfigLines(config) ==
    IF config.PydanticV2
    THEN <<"", "model_config = {",
           IndentUnit \o "\"validate_assignment\": True,",
           IndentUnit \o "\"use_enum_values\": True,",
           "}">>
    ELSE <<"", "class Config:",
           IndentUnit \o "validate_assignment = True",
           IndentUnit \o "use_enum_values = True">>

\* 181-243: the import tracker after the scans
ModelImports(model, config, morpheConfig, r) ==
    LET i1 == AddPydantic(NewImportTracker, "BaseModel")
        i2 == IF morpheConfig.UseField THEN AddPydantic(i1, "Field") ELSE i1
        i3 == ScanFields(i2, model.Fields, 1, FALSE, r)
        i4 == ScanFields(i3, model.Fields, 1, TRUE, r)
        i5 == AddTypingIf(i4, config.AddTypeHints, "Optional")
        hasPolymorphicTypeField ==
            \E i \in 1..Len(model.Fields) : IsPolymorphicTypeField(model.Fields[i])
    IN  AddTypingIf(i5, hasPolymorphicTypeField, "Literal")

GenerateModelContent(model, config, morpheConfig, r) ==
    Generate(ModelImports(model, config, morpheConfig, r))
    \o <<"">>
    \o <<"class " \o model.Name \o "(BaseModel):">>
    \o IndentAll(
        <<"\"\"\"" \o model.Name \o " model.\"\"\"">>
        \o (IF Len(model.Fields) = 0 THEN <<"pass">>
            ELSE DataFieldLines(model.Fields, 1, config)
                 \o NavFieldLines(model.Fields, 1)
                 \o (IF NeedsModelConfig(model.Fields, r)
                     THEN ModelConfigLines(config) ELSE <<>>)))

(***************************************************************************)
(* Structures: CompileStructure, generateStructureContent.                 *)
(***************************************************************************)
\* typemap.MorpheStructureFieldToFormatType (not among the sources at hand):
\* scalars as in GetFieldType, a name the registry knows as a reference to it,
\* anything else cannot be mapped
MorpheStructureFieldToFormatType(morpheType, fieldName, r) ==
    IF morpheType \in {"String", "AutoIncrement", "Integer", "Float", "Boolean", "Time"}
    THEN [type |-> GetFieldType(morpheType), err |-> ""]
    ELSE IF ResolveFieldType(morpheType, r) # "unknown"
    THEN [type |-> BasicType(morpheType), err |-> ""]
    ELSE [type |-> BasicType(""), err |-> "unsupported field type"]

\* the sorted field names whose type cannot be mapped
UnmappableFields(structure, r) ==
    LET fieldNames == SortStrings(DOMAIN structure.Fields)
        Fails(fieldName) ==
            MorpheStructureFieldToFormatType(structure.Fields[fieldName], fieldName, r).err # ""
    IN  SelectSeq(fieldNames, Fails)

\* the compilation were a field type that cannot be mapped taken as it is
CompileStructureUnchecked(structure, r) ==
    LET fieldNames == SortStrings(DOMAIN structure.Fields)
    IN  [Name |-> structure.Name,
         Fields |-> [i \in 1..Len(fieldNames) |->
                        Field(fieldNames[i], BasicType(structure.Fields[fieldNames[i]]))],
         err |-> ""]

\* the fields in sorted order; the first field that cannot be mapped ends the
\* compilation with an error naming it
CompileStructure(structure, r) ==
    LET fieldNames == SortStrings(DOMAIN structure.Fields)
        failing == UnmappableFields(structure, r)
    IN  IF Len(failing) > 0
        THEN [Name |-> structure.Name, Fields |-> <<>>,
              err |-> "failed to map field type for " \o failing[1] \o ": "
                        \o MorpheStructureFieldToFormatType(
                                structure.Fields[failing[1]], failing[1], r).err]
        ELSE [Name |-> structure.Name,
              Fields |-> [i \in 1..Len(fieldNames) |->
                            Field(fieldNames[i],
                                  MorpheStructureFieldToFormatType(
                                      structure.Fields[fieldNames[i]], fieldNames[i], r).type)],
              err |-> ""]

\* part_002 131-144: the test that takes a field for an enum
StructureNeedsConfig(fields) ==
    \E i \in 1..Len(fields) :
        /\ IsBasicTypeValue(fields[i].Type)
        /\ GetName(fields[i].Type) \notin
                {"str", "int", "float", "bool", "datetime", "Dict[str, Any]"}
        /\ ~Contains(GetName(fields[i].Type), "[")

\* part_002 80-112: the typing and datetime imports
StructureTypingImports(structure, config) ==
    LET names == [i \in 1..Len(structure.Fields) |-> GetName(structure.Fields[i].Type)]
        hasDate == \E i \in 1..Len(names) : names[i] = "datetime"
        hasDict == \E i \in 1..Len(names) : names[i] = "Dict[str, Any]"
        hasList == \E i \in 1..Len(names) :
                        /\ names[i] \notin {"datetime", "Dict[str, Any]"}
                        /\ Len(names[i]) > 5
                        /\ SubSeq(names[i], 1, 5) = "List["
        imports == <<"Optional">>
                    \o (IF hasDict THEN <<"Dict", "Any">> ELSE <<>>)
                    \o (IF hasList THEN <<"List">> ELSE <<>>)
    IN  IF config.AddTypeHints
        THEN <<"from typing import " \o Join(imports, ", ")>>
             \o (IF hasDate THEN <<"from datetime import datetime">> ELSE <<>>)
        ELSE <<>>

GenerateStructureContent(structure, config) ==
    <<IF config.PydanticV2 THEN "from pydantic import BaseModel, Field"
      ELSE "from pydantic import BaseModel">>
    \o StructureTypingImports(structure, config)
    \o <<"", "">>
    \o <<"class " \o structure.Name \o "(BaseModel):">>
    \o IndentAll(
        <<"\"\"\"" \o structure.Name \o " data transfer object.\"\"\"">>
        \o [i \in 1..Len(structure.Fields) |->
                SanitizePythonIdentifier(ToSnakeCase(structure.Fields[i].Name))
                    \o ": " \o GetName(structure.Fields[i].Type)]
        \o (IF config.PydanticV2 /\ StructureNeedsConfig(structure.Fields)
            THEN <<"", "model_config = {",
                   IndentUnit \o "\"validate_assignment\": True,",
                   IndentUnit \o "\"use_enum_values\": True,",
                   "}">>
            ELSE <<>>))

(***************************************************************************)
(* The registries and configurations the pipeline is run on.               *)
(*                                                                         *)
(* The registry holds the model Post, whose fields and relations vary, the *)
(* models of Owners, each owning the polymorphic relation Commentable, the *)
(* enum Status and the structure Address, whose fields vary.               *)
(***************************************************************************)
Restrict(f, S) == [k \in S |-> f[k]]

SubsetsUpTo(S, n) == {T \in SUBSET S : Cardinality(T) <= n}

\* declared fields a model may have (name -> Morphe type)
FieldPool ==
    [n \in {"ID", "Title", "Status", "OwnerID", "CreatedAt", "_nav_Tag"} |->
        CASE n = "ID" -> "AutoIncrement"
          [] n = "Status" -> "Status"
          [] n = "CreatedAt" -> "Time"
          [] OTHER -> "String"]

FieldMaps == {Restrict(FieldPool, S) : S \in SubsetsUpTo(DOMAIN FieldPool, MaxFields)}

BaseFields == Restrict(FieldPool, {"ID", "Title"})

\* fields a structure may have; Geo is of a type nothing declares
StructureFieldPool ==
    [n \in {"Street", "Kind", "Since", "Geo"} |->
        CASE n = "Kind" -> "Status"
          [] n = "Since" -> "Time"
          [] n = "Geo" -> "Point"
          [] OTHER -> "String"]

StructureFieldMaps ==
    {Restrict(StructureFieldPool, S) : S \in SubsetsUpTo(DOMAIN StructureFieldPool, MaxFields)}

BaseStructureFields == Restrict(StructureFieldPool, {"Street"})

RelationNames == <<"Comment", "Author", "Commentable">>

ForPool == {"Post", "Video", "Person"}

\* the "for" lists: up to MaxFor distinct kinds, in every order
ForLists ==
    UNION {{f \in [1..n -> ForPool] : \A i, j \in 1..n : i # j => f[i] # f[j]} :
              n \in 1..MaxFor}

PlainKinds == {k \in RelationKinds : ~IsRelationPoly(k)}

PolyKinds == {k \in RelationKinds : IsRelationPoly(k)}

PlainDeclarations == {Relation(k, <<>>, "", a) : k \in PlainKinds, a \in {"", "Person"}}

PolyDeclarations ==
    {Relation(k, f, "", "") : k \in PolyKinds, f \in ForLists}
    \cup {Relation(k, <<>>, t, "") : k \in PolyKinds, t \in {"", "Commentable", "Missing"}}

\* one declaration of each of four kinds, for the models with several relations
SampleDeclarations ==
    {Relation("ForOne", <<>>, "", ""), Relation("HasMany", <<>>, "", ""),
     Relation("ForOnePoly", <<"Post", "Video">>, "", ""),
     Relation("HasManyPoly", <<>>, "Commentable", "")}

\* the relation maps of Post: none, any one declaration under any name, or
\* sample declarations under the first n names, n up to MaxRels
RelationMaps ==
    {<<>>}
    \cup {[n \in {name} |-> d] :
            name \in SeqToSet(RelationNames), d \in PlainDeclarations \cup PolyDeclarations}
    \cup UNION {[{RelationNames[i] : i \in 1..n} -> SampleDeclarations] :
                    n \in 2..(IF MaxRels < Len(RelationNames) THEN MaxRels
                              ELSE Len(RelationNames))}

BaseRelations == [n \in {"Author"} |-> Relation("ForOne", <<>>, "", "")]

ThroughRelationMaps ==
    {[n \in {name} |-> Relation(k, <<>>, "Commentable", "")] :
        name \in SeqToSet(RelationNames), k \in PolyKinds}

OwnerModel(name) ==
    [Name |-> name,
     Fields |-> Restrict(FieldPool, {"ID"}),
     Related |-> [n \in {"Commentable"} |-> Relation("ForOnePoly", <<"Post", "Video">>, "", "")]]

MakeRegistry(postFields, postRelated, owners, addressFields) ==
    [models |-> [n \in {"Post"} \cup owners |->
                    IF n = "Post"
                    THEN [Name |-> "Post", Fields |-> postFields, Related |-> postRelated]
                    ELSE OwnerModel(n)],
     enums |-> {"Status"},
     structures |-> [n \in {"Address"} |-> [Name |-> "Address", Fields |-> addressFields]]]

\* MorpheCompileConfig: FormatConfig (PydanticConfig) and MorpheConfig.Models
MakeConfig(pydanticV2, addTypeHints, useField) ==
    [FormatConfig |-> [PydanticV2 |-> pydanticV2, AddTypeHints |-> addTypeHints],
     MorpheConfig |-> [UseField |-> useField]]

\* DefaultMorpheCompileConfig (morphe_compile_config.go 48-54)
DefaultConfig == MakeConfig(TRUE, TRUE, FALSE)

Configs == {MakeConfig(v, h, u) : v \in BOOLEAN, h \in BOOLEAN, u \in BOOLEAN}

Input(reg, cfg) == [registry |-> reg, config |-> cfg]

\* every relation map, with and without type hints
RelationInputs ==
    {Input(MakeRegistry(BaseFields, rel, {"Comment"}, BaseStructureFields),
           MakeConfig(TRUE, h, FALSE)) :
        rel \in RelationMaps, h \in BOOLEAN}

\* every field map under every configuration, and in a model without relations
FieldInputs ==
    {Input(MakeRegistry(f, BaseRelations, {"Comment"}, BaseStructureFields), c) :
        f \in FieldMaps, c \in Configs}
    \cup {Input(MakeRegistry(f, <<>>, {"Comment"}, BaseStructureFields), DefaultConfig) :
        f \in FieldMaps}

\* a "through" reference with no owner and with two owners
ThroughInputs ==
    {Input(MakeRegistry(BaseFields, rel, owners, BaseStructureFields), DefaultConfig) :
        rel \in ThroughRelationMaps, owners \in {{}, {"Comment", "Review"}}}

\* every structure field map under every format configuration
StructureInputs ==
    {Input(MakeRegistry(BaseFields, BaseRelations, {"Comment"}, f),
           MakeConfig(v, h, FALSE)) :
        f \in StructureFieldMaps, v \in BOOLEAN, h \in BOOLEAN}

\* the registry of the test data: Company (part_001), ContactInfo (part_000)
\* and Person (README, "Model (Pydantic)")
CompanyModel ==
    [Name |-> "Company",
     Fields |-> [n \in {"ID", "Name", "TaxID"} |->
                    IF n = "ID" THEN "AutoIncrement" ELSE "String"],
     Related |-> [n \in {"Person"} |-> Relation("HasMany", <<>>, "", "")]]

ContactInfoModel ==
    [Name |-> "ContactInfo",
     Fields |-> [n \in {"ID", "Email"} |->
                    IF n = "ID" THEN "AutoIncrement" ELSE "String"],
     Related |-> [n \in {"Person"} |-> Relation("ForOne", <<>>, "", "")]]

PersonModel ==
    [Name |-> "Person",
     Fields |-> [n \in {"ID", "FirstName", "LastName", "Nationality"} |->
                    CASE n = "ID" -> "AutoIncrement"
                      [] n = "Nationality" -> "Nationality"
                      [] OTHER -> "String"],
     Related |-> [n \in {"Company"} |-> Relation("ForOne", <<>>, "", "")]]

MinimalRegistry ==
    [models |-> [n \in {"Company", "ContactInfo", "Person"} |->
                    CASE n = "Company" -> CompanyModel
                      [] n = "ContactInfo" -> ContactInfoModel
                      [] OTHER -> PersonModel],
     enums |-> {"Nationality"},
     structures |-> [n \in {"Address"} |->
                        [Name |-> "Address", Fields |-> BaseStructureFields]]]

\* the test registry under every configuration
MinimalInputs == {Input(MinimalRegistry, c) : c \in Configs}

\* a registry with a second structure, Location, sound or with a field of a
\* type nothing declares
WithStructure(reg, name, fields) ==
    [reg EXCEPT !.structures =
        [n \in DOMAIN reg.structures \cup {name} |->
            IF n = name THEN [Name |-> name, Fields |-> fields] ELSE reg.structures[n]]]

TwoStructureInputs ==
    {Input(WithStructure(MakeRegistry(BaseFields, BaseRelations, {"Comment"},
                                      BaseStructureFields),
                         "Location", Restrict(StructureFieldPool, S)),
           DefaultConfig) :
        S \in {{"Street"}, {"Geo"}, {"Geo", "Kind"}}}

Inputs ==
    RelationInputs \cup FieldInputs \cup ThroughInputs \cup StructureInputs
        \cup MinimalInputs \cup TwoStructureInputs

(***************************************************************************)
(* The pipeline as a state machine: CompileAllModels and                   *)
(* CompileAllStructures, one action per iteration of their loops and one   *)
(* for the hand-over to the writer.  The two batches run one after the     *)
(* other, in either order.                                                 *)
(***************************************************************************)
VARIABLES
    registry,             \* the schema registry
    config,               \* the MorpheCompileConfig
    batch,                \* "idle", "models" or "structures": the batch running
    compiledModels,       \* model name -> the result of CompileModel
    modelContents,        \* the map CompileAllModels fills
    modelsResult,         \* "pending", "ok" or the error CompileAllModels returned
    writtenModels,        \* what the writer was handed by WriteAllModels
    compiledStructures,   \* structure name -> the result of CompileStructure
    structureContents,    \* the map CompileAllStructures fills
    structuresResult,     \* "pending", "ok" or the error CompileAllStructures returned
    writtenStructures,    \* what the writer was handed by WriteAllStructures
    history,              \* the outputs of the earlier compilations of this registry
    tracker,              \* an ImportTracker driven call by call
    calls                 \* the calls made on tracker so far

vars ==
    <<registry, config, batch, compiledModels, modelContents, modelsResult, writtenModels,
      compiledStructures, structureContents, structuresResult, writtenStructures, history,
      tracker, calls>>

NotWritten == [called |-> FALSE, contents |-> <<>>]

Fresh ==
    /\ batch = "idle"
    /\ compiledModels = <<>>
    /\ modelContents = <<>>
    /\ modelsResult = "pending"
    /\ writtenModels = NotWritten
    /\ compiledStructures = <<>>
    /\ structureContents = <<>>
    /\ structuresResult = "pending"
    /\ writtenStructures = NotWritten

Init ==
    /\ \E input \in Inputs : registry = input.registry /\ config = input.config
    /\ Fresh
    /\ history = <<>>
    /\ tracker = NewImportTracker
    /\ calls = <<>>

InitTwice ==
    /\ \E input \in ThroughInputs \cup StructureInputs :
            registry = input.registry /\ config = input.config
    /\ Fresh
    /\ history = <<>>
    /\ tracker = NewImportTracker
    /\ calls = <<>>

Extend(map, key, value) == [k \in DOMAIN map \cup {key} |-> IF k = key THEN value ELSE map[k]]

\* compile_models.go 161-171: one iteration of the loop of CompileAllModels.
\* CompileModel returns no error on any path, so the loop never returns early.
CompileAllModelsIter(modelName) ==
    /\ \/ batch = "idle" /\ modelsResult = "pending"
       \/ batch = "models"
    /\ modelName \in DOMAIN registry.models \ DOMAIN modelContents
    /\ \E pick \in ThroughChoices(registry.models[modelName], registry) :
        LET compiledModel == CompileModel(registry.models[modelName], registry, pick)
            content == GenerateModelContent(compiledModel, config.FormatConfig,
                                            config.MorpheConfig, registry)
        IN  /\ compiledModels' = Extend(compiledModels, modelName, compiledModel)
            /\ modelContents' = Extend(modelContents, modelName, content)
    /\ batch' = "models"
    /\ UNCHANGED <<registry, config, modelsResult, writtenModels, compiledStructures,
                   structureContents, structuresResult, writtenStructures, history,
                   tracker, calls>>

\* compile_models.go 173-174: the map is handed to the writer
WriteAllModels ==
    /\ batch = "models"
    /\ DOMAIN modelContents = DOMAIN registry.models
    /\ writtenModels' = [called |-> TRUE, contents |-> modelContents]
    /\ modelsResult' = "ok"
    /\ batch' = "idle"
    /\ UNCHANGED <<registry, config, compiledModels, modelContents, compiledStructures,
                   structureContents, structuresResult, writtenStructures, history,
                   tracker, calls>>

\* part_002 53-63: one iteration of the loop of CompileAllStructures; an error
\* of CompileStructure ends the batch
CompileAllStructuresIter(structureName) ==
    /\ \/ batch = "idle" /\ structuresResult = "pending"
       \/ batch = "structures"
    /\ structureName \in DOMAIN registry.structures \ DOMAIN structureContents
    /\ LET compiledStructure == CompileStructure(registry.structures[structureName], registry)
       IN  \/ /\ compiledStructure.err # ""
              /\ structuresResult' = "failed to compile structure " \o structureName
                                        \o ": " \o compiledStructure.err
              /\ batch' = "idle"
              /\ UNCHANGED <<compiledStructures, structureContents>>
           \/ /\ compiledStructure.err = ""
              /\ compiledStructures' = Extend(compiledStructures, structureName, compiledStructure)
              /\ structureContents' =
                    Extend(structureContents, structureName,
                           GenerateStructureContent(compiledStructure, config.FormatConfig))
              /\ batch' = "structures"
              /\ UNCHANGED structuresResult
    /\ UNCHANGED <<registry, config, compiledModels, modelContents, modelsResult,
                   writtenModels, writtenStructures, history, tracker, calls>>

\* part_002 65-66
WriteAllStructures ==
    /\ batch = "structures"
    /\ DOMAIN structureContents = DOMAIN registry.structures
    /\ writtenStructures' = [called |-> TRUE, contents |-> structureContents]
    /\ structuresResult' = "ok"
    /\ batch' = "idle"
    /\ UNCHANGED <<registry, config, compiledModels, modelContents, modelsResult,
                   writtenModels, compiledStructures, structureContents, history,
                   tracker, calls>>

Finished == batch = "idle" /\ modelsResult # "pending" /\ structuresResult # "pending"

\* what one compilation handed to the writer, and what it returned
Output ==
    [models |-> writtenModels, structures |-> writtenStructures,
     modelsResult |-> modelsResult, structuresResult |-> structuresResult]

\* the plugin is run again on the same registry with the same configuration
Recompile ==
    /\ Finished
    /\ Len(history) < MaxRuns - 1
    /\ history' = Append(history, Output)
    /\ batch' = "idle"
    /\ compiledModels' = <<>>
    /\ modelContents' = <<>>
    /\ modelsResult' = "pending"
    /\ writtenModels' = NotWritten
    /\ compiledStructures' = <<>>
    /\ structureContents' = <<>>
    /\ structuresResult' = "pending"
    /\ writtenStructures' = NotWritten
    /\ UNCHANGED <<registry, config, tracker, calls>>

Next ==
    \/ \E modelName \in DOMAIN registry.models : CompileAllModelsIter(modelName)
    \/ WriteAllModels
    \/ \E structureName \in DOMAIN registry.structures : CompileAllStructuresIter(structureName)
    \/ WriteAllStructures

NextTwice == Next \/ Recompile

Spec == Init /\ [][Next]_vars

SpecTwice == InitTwice /\ [][NextTwice]_vars

(***************************************************************************)
(* An ImportTracker by itself: created as generateModelContent creates it  *)
(* (compile_models.go 182-187) and then handed type names and typing       *)
(* imports in any order, with repetitions.                                 *)
(***************************************************************************)
Call(op, arg) == [op |-> op, arg |-> arg]

\* the calls a generator makes, over the names of the registry
CallPool ==
    << Call("TrackFieldType", "datetime"),
       Call("TrackFieldType", "Optional[Status]"),
       Call("TrackFieldType", "List[Comment]"),
       Call("TrackFieldType", "Union['Post', 'Video']"),
       Call("TrackFieldType", "Dict[str, Any]"),
       Call("AddTyping", "Optional"),
       Call("AddTyping", "TYPE_CHECKING") >>

\* the tracker after one call
Apply(it, call, r) ==
    IF call.op = "TrackFieldType" THEN TrackFieldType(it, call.arg, r)
    ELSE AddTyping(it, call.arg)

RECURSIVE Replay(_, _, _)
Replay(it, callSeq, r) ==
    IF Len(callSeq) = 0 THEN it
    ELSE Replay(Apply(it, Head(callSeq), r), Tail(callSeq), r)

InitTracker ==
    /\ registry = MakeRegistry(BaseFields, BaseRelations, {"Comment"}, BaseStructureFields)
    /\ \E useField \in BOOLEAN :
        /\ config = MakeConfig(TRUE, TRUE, useField)
        /\ tracker = IF useField
                     THEN AddPydantic(AddPydantic(NewImportTracker, "BaseModel"), "Field")
                     ELSE AddPydantic(NewImportTracker, "BaseModel")
    /\ calls = <<>>
    /\ Fresh
    /\ history = <<>>

TrackerCall(call) ==
    /\ Len(calls) < MaxCalls
    /\ tracker' = Apply(tracker, call, registry)
    /\ calls' = Append(calls, call)
    /\ UNCHANGED <<registry, config, batch, compiledModels, modelContents, modelsResult,
                   writtenModels, compiledStructures, structureContents, structuresResult,
                   writtenStructures, history>>

NextTracker == \E call \in SeqToSet(CallPool) : TrackerCall(call)

SpecTracker == InitTracker /\ [][NextTracker]_vars

(***************************************************************************)
(* Reading the state: the compiled field list of a model by origin, and    *)
(* the lines of a generated declaration.                                   *)
(***************************************************************************)
RelatedOf(modelName) == registry.models[modelName].Related

\* the positions of the fields that `loop` appended for declaration `of`
PositionsOf(c, loop, of) ==
    {i \in 1..Len(c.Fields) : c.Origin[i].loop = loop /\ c.Origin[i].of = of}

PositionsOfLoop(c, loop) == {i \in 1..Len(c.Fields) : c.Origin[i].loop = loop}

\* the members of a set of positions in increasing order
InOrder(positions) ==
    [k \in 1..Cardinality(positions) |->
        CHOOSE i \in positions : Cardinality({j \in positions : j < i}) = k - 1]

FieldsAt(c, positions) == [k \in 1..Cardinality(positions) |-> c.Fields[InOrder(positions)[k]]]

\* the type of the navigation field of relation relName
NavigationTypeOf(c, relName) ==
    c.Fields[CHOOSE i \in PositionsOf(c, "navigation", relName) : TRUE].Type

\* the type with the Array wrapper of a Many relation taken off
Unwrapped(t) == IF t.kind = "array" THEN t.elem ELSE t

\* the field lines of a declaration: the lines of the class body that declare
\* an attribute "<name>: ..." or "<name> = ..." at the first indentation level
IsFieldLine(line) ==
    /\ HasPrefix(line, IndentUnit)
    /\ ~HasPrefix(line, IndentUnit \o " ")
    /\ ~HasPrefix(line, IndentUnit \o "\"")
    /\ ~HasPrefix(line, IndentUnit \o "from ")
    /\ ~HasPrefix(line, IndentUnit \o "model_config")
    /\ ~HasPrefix(line, IndentUnit \o "class ")
    /\ ~HasPrefix(line, IndentUnit \o "}")
    /\ line # IndentUnit \o "pass"

FieldLines(content) == SelectSeq(content, IsFieldLine)

\* the attribute a field line declares
LineName(line) ==
    LET body == TrimPrefix(line, IndentUnit)
        colon == IndexOf(body, ":")
        equals == IndexOf(body, " =")
    IN  IF colon > 0 THEN SubSeq(body, 1, colon - 1)
        ELSE IF equals > 0 THEN SubSeq(body, 1, equals - 1)
        ELSE body

\* the field lines of `content` that declare attribute `name`
LinesOf(content, name) ==
    LET Declares(line) == IsFieldLine(line) /\ LineName(line) = name
    IN  SelectSeq(content, Declares)

\* a navigation line: an optional forward reference, list or union
IsNavigationLine(line) ==
    /\ IsFieldLine(line)
    /\ \/ Contains(line, ": Optional['")
       \/ Contains(line, ": Optional[List[")
       \/ Contains(line, ": Optional[Union[")

(***************************************************************************)
(* C1.  For every relation of a compiled model the foreign-key fields      *)
(* depend on the relation kind alone: ForOne adds exactly one field        *)
(* <relation>_id of type str, ForOnePoly adds exactly <relation>_type and  *)
(* <relation>_id, both str, and the six other kinds add none.              *)
(***************************************************************************)
\* the names are the camel-cased forms of <relation>_type and <relation>_id
ForeignKeyNamesExpected(relName, kind) ==
    IF kind = "ForOne" THEN <<ToCamelCase(relName \o "_id")>>
    ELSE IF kind = "ForOnePoly"
    THEN <<ToCamelCase(relName \o "_type"), ToCamelCase(relName \o "_id")>>
    ELSE <<>>

C1_ForeignKeysByKind ==
    \A m \in DOMAIN compiledModels :
        LET c == compiledModels[m]
        IN  /\ \A relName \in DOMAIN RelatedOf(m) :
                LET fks == FieldsAt(c, PositionsOf(c, "foreignKey", relName))
                IN  /\ [i \in 1..Len(fks) |-> fks[i].Name]
                        = ForeignKeyNamesExpected(relName, RelatedOf(m)[relName].Type)
                    /\ \A i \in 1..Len(fks) : GetName(fks[i].Type) = "str"
            /\ \A i \in PositionsOfLoop(c, "foreignKey") : c.Origin[i].of \in DOMAIN RelatedOf(m)

C1_Witness ==
    \E m \in DOMAIN compiledModels :
        /\ \E relName \in DOMAIN RelatedOf(m) : RelatedOf(m)[relName].Type = "ForOnePoly"
        /\ \E relName \in DOMAIN RelatedOf(m) : RelatedOf(m)[relName].Type = "HasMany"

(***************************************************************************)
(* C2.  Every model has exactly one navigation field per relation, named   *)
(* after the relation, in the compiled field list and in the rendered      *)
(* declaration; a model with no relation has none, whatever its data       *)
(* fields are called.                                                      *)
(***************************************************************************)
NavigationTagged(c) == FieldsAt(c, {i \in 1..Len(c.Fields) : IsNavName(c.Fields[i].Name)})

C2_OneNavigationFieldPerRelation ==
    \A m \in DOMAIN compiledModels :
        LET relatedNames == SortStrings(DOMAIN RelatedOf(m))
            tagged == NavigationTagged(compiledModels[m])
            rendered == SelectSeq(modelContents[m], IsNavigationLine)
        IN  /\ [i \in 1..Len(tagged) |-> tagged[i].Name]
                = [i \in 1..Len(relatedNames) |-> "_nav_" \o relatedNames[i]]
            /\ [i \in 1..Len(rendered) |-> LineName(rendered[i])]
                = [i \in 1..Len(relatedNames) |-> ToSnakeCase(relatedNames[i])]

(***************************************************************************)
(* C3.  The navigation field of a plain relation refers to the alias when  *)
(* there is one and to the relation name otherwise; the reference is       *)
(* wrapped in an array exactly for ForMany and HasMany.                    *)
(***************************************************************************)
C3_PlainNavigationType ==
    \A m \in DOMAIN compiledModels :
        \A relName \in DOMAIN RelatedOf(m) :
            LET relation == RelatedOf(m)[relName]
                target == IF relation.Aliased # "" THEN relation.Aliased ELSE relName
                navType == NavigationTypeOf(compiledModels[m], relName)
            IN  relation.Type \in {"ForOne", "ForMany", "HasOne", "HasMany"} =>
                    /\ Cardinality(PositionsOf(compiledModels[m], "navigation", relName)) = 1
                    /\ relation.Type \in {"ForMany", "HasMany"} =>
                            navType = [kind |-> "array", elem |-> [kind |-> "basic", name |-> target]]
                    /\ relation.Type \in {"ForOne", "HasOne"} =>
                            navType = [kind |-> "basic", name |-> target]

C3_Witness ==
    \E m \in DOMAIN compiledModels :
        \E relName \in DOMAIN RelatedOf(m) :
            /\ RelatedOf(m)[relName].Type = "HasMany"
            /\ RelatedOf(m)[relName].Aliased = "Person"
            /\ GetName(NavigationTypeOf(compiledModels[m], relName)) = "List[Person]"

(***************************************************************************)
(* C4.  The navigation field of a polymorphic relation with a "for" list   *)
(* of length N is a Union (inside the array of a Many relation) of exactly *)
(* N distinct references, one per listed kind, in the order of the list.   *)
(***************************************************************************)
\* the members of the text of a Union type: between "Union[" and "]",
\* separated by ", ", each in single quotes
UnionMembers(typeName) ==
    LET inside == SubSeq(typeName, 7, Len(typeName) - 1)
        parts == Split(inside, ", ")
    IN  [i \in 1..Len(parts) |-> SubSeq(parts[i], 2, Len(parts[i]) - 1)]

IsUnionText(typeName) ==
    /\ HasPrefix(typeName, "Union['")
    /\ HasSuffix(typeName, "']")

OwnersOf(through) ==
    {o \in DOMAIN registry.models :
        /\ through \in DOMAIN registry.models[o].Related
        /\ registry.models[o].Related[through].Type
                \in {"ForOnePoly", "ForManyPoly", "HasOnePoly", "HasManyPoly"}}

C5_ThroughResolution ==
    \A m \in DOMAIN compiledModels :
        /\ compiledModels[m].err = FALSE
        /\ m \in DOMAIN modelContents
        /\ \A relName \in DOMAIN RelatedOf(m) :
            LET relation == RelatedOf(m)[relName]
                inner == Unwrapped(NavigationTypeOf(compiledModels[m], relName))
            IN  (relation.Type \in {"ForOnePoly", "ForManyPoly", "HasOnePoly", "HasManyPoly"}
                    /\ Len(relation.For) = 0) =>
                    /\ inner.kind = "basic"
                    /\ (relation.Through # "" /\ OwnersOf(relation.Through) # {}) =>
                            inner.name \in OwnersOf(relation.Through)
                    /\ (relation.Through # "" /\ OwnersOf(relation.Through) = {}) =>
                            inner.name = "Any"
                    /\ relation.Through = "" => inner.name = "Any"

C5_Witness ==
    /\ modelsResult = "ok"
    /\ \E m \in DOMAIN compiledModels :
        \E relName \in DOMAIN RelatedOf(m) :
            /\ RelatedOf(m)[relName].Type = "HasManyPoly"
            /\ RelatedOf(m)[relName].Through = "Missing"
            /\ GetName(NavigationTypeOf(compiledModels[m], relName)) = "List[Any]"

(***************************************************************************)
(* C6.  Compiling the same registry under the same configuration twice     *)
(* yields identical field lists and identical generated text for every     *)
(* model and structure: each finished run has the output of the runs       *)
(* before it.                                                              *)
(***************************************************************************)
C6_SameOutputEveryRun ==
    Finished => \A i \in 1..Len(history) : history[i] = Output

(***************************************************************************)
(* C7.  As the claim states it: in a rendered declaration every data       *)
(* field precedes every navigation field, the data fields are in           *)
(* alphabetical order of field name and the navigation fields in           *)
(* alphabetical order of relation name.                                    *)
(***************************************************************************)
IsDataLine(line) == IsFieldLine(line) /\ ~IsNavigationLine(line)

NamesOfLines(lines) == [i \in 1..Len(lines) |-> LineName(lines[i])]

LoopRank(loop) ==
    IF loop = "declared" THEN 1 ELSE IF loop = "foreignKey" THEN 2 ELSE 3

RenderedName(field) == ToSnakeCase(TrimPrefix(field.Name, "_nav_"))

HasConfigBlock(content) ==
    /\ \E i \in 1..Len(content) : Contains(content[i], "validate_assignment")
    /\ \E i \in 1..Len(content) : Contains(content[i], "use_enum_values")

RefersToEnum(fieldTypes) ==
    \E name \in DOMAIN fieldTypes : fieldTypes[name] \in registry.enums

C8_ConfigBlockIffEnumField ==
    /\ \A m \in DOMAIN modelContents :
            HasConfigBlock(modelContents[m]) <=> RefersToEnum(registry.models[m].Fields)
    /\ \A s \in DOMAIN structureContents :
            HasConfigBlock(structureContents[s]) <=> RefersToEnum(registry.structures[s].Fields)

(***************************************************************************)
(* C9.  The <relation>_id field of a ForOne or ForOnePoly relation and the *)
(* <relation>_type field of a ForOnePoly relation are rendered optional    *)
(* with a default: "<name>: Optional[str] = None" with type hints and      *)
(* "<name> = None" without.                                                *)
(***************************************************************************)
ForeignKeyStyleNames(relName, kind) ==
    IF kind = "ForOne" THEN {ToSnakeCase(relName) \o "_id"}
    ELSE IF kind = "ForOnePoly"
    THEN {ToSnakeCase(relName) \o "_id", ToSnakeCase(relName) \o "_type"}
    ELSE {}

C9_ForeignKeysOptionalWithDefault ==
    \A m \in DOMAIN modelContents :
        \A relName \in DOMAIN RelatedOf(m) :
            \A name \in ForeignKeyStyleNames(relName, RelatedOf(m)[relName].Type) :
                LinesOf(modelContents[m], name) =
                    << IndentUnit \o name \o
                        (IF config.FormatConfig.AddTypeHints
                         THEN ": Optional[str] = None"
                         ELSE " = None") >>

C9_Witness ==
    /\ config.FormatConfig.AddTypeHints
    /\ \E m \in DOMAIN modelContents :
        \E relName \in DOMAIN RelatedOf(m) :
            /\ RelatedOf(m)[relName].Type = "ForOnePoly"
            /\ Len(LinesOf(modelContents[m], ToSnakeCase(relName) \o "_type")) = 1
            /\ Len(LinesOf(modelContents[m], ToSnakeCase(relName) \o "_id")) = 1

(***************************************************************************)
(* C10.  With type hints, the <relation>_type field of a ForOnePoly        *)
(* relation is rendered as a Literal of exactly the Union's member names,  *)
(* in its order, when the navigation field of the relation resolved to a   *)
(* Union, and as a string when it did not.                                 *)
(***************************************************************************)
DoubleQuoted(names) == [i \in 1..Len(names) |-> "\"" \o names[i] \o "\""]

C10_TypeDiscriminatorIsLiteral ==
    \A m \in DOMAIN modelContents :
        \A relName \in DOMAIN RelatedOf(m) :
            LET name == ToSnakeCase(relName) \o "_type"
                navType == NavigationTypeOf(compiledModels[m], relName)
                lines == LinesOf(modelContents[m], name)
            IN  (RelatedOf(m)[relName].Type = "ForOnePoly" /\ config.FormatConfig.AddTypeHints) =>
                    /\ Len(lines) = 1
                    /\ IF navType.kind = "basic" /\ IsUnionText(navType.name)
                       THEN lines[1] = IndentUnit \o name \o ": Literal["
                                \o Join(DoubleQuoted(UnionMembers(navType.name)), ", ") \o "]"
                       ELSE lines[1] \in {IndentUnit \o name \o ": str",
                                          IndentUnit \o name \o ": Optional[str] = None"}

(***************************************************************************)
(* C11.  The navigation field of a relation is left out of the rendered    *)
(* declaration exactly when the relation also produced foreign-key fields  *)
(* (ForOne, ForOnePoly); the navigation fields of all other relations are  *)
(* rendered.                                                               *)
(***************************************************************************)
NavigationLinesOf(content, relName) ==
    SelectSeq(LinesOf(content, ToSnakeCase(relName)), IsNavigationLine)

C11_NavigationSuppressedWithForeignKeys ==
    \A m \in DOMAIN modelContents :
        \A relName \in DOMAIN RelatedOf(m) :
            (Len(NavigationLinesOf(modelContents[m], relName)) = 0)
                <=> (RelatedOf(m)[relName].Type \in {"ForOne", "ForOnePoly"})

(***************************************************************************)
(* C12.  The model Company, with fields ID, Name, TaxID and the single     *)
(* relation Person: HasMany, is rendered with exactly the three data       *)
(* fields id, name and tax_id, exactly one navigation field, named         *)
(* persons and typed as an array of references to Person, and no           *)
(* foreign-key field.                                                      *)
(***************************************************************************)
IsArrayOfPerson(line) ==
    \/ Contains(line, "List[Person]")
    \/ Contains(line, "List['Person']")

C12_CompanyScenario ==
    ("Company" \in DOMAIN modelContents /\ registry.models["Company"] = CompanyModel) =>
        LET content == modelContents["Company"]
            data == SelectSeq(content, IsDataLine)
            navigation == SelectSeq(content, IsNavigationLine)
        IN  /\ Len(data) = 3
            /\ SeqToSet(NamesOfLines(data)) = {"id", "name", "tax_id"}
            /\ Len(navigation) = 1
            /\ LineName(navigation[1]) = "persons"
            /\ IsArrayOfPerson(navigation[1])
            /\ PositionsOfLoop(compiledModels["Company"], "foreignKey") = {}

(***************************************************************************)
(* C13.  The model ContactInfo, with fields ID, Email and the single       *)
(* relation Person: ForOne, is rendered with the data fields id, email and *)
(* an optional person_id, and with a navigation field person typed as an   *)
(* optional reference to Person.                                           *)
(***************************************************************************)
C13_ContactInfoScenario ==
    ("ContactInfo" \in DOMAIN modelContents
        /\ registry.models["ContactInfo"] = ContactInfoModel) =>
        LET content == modelContents["ContactInfo"]
            data == SelectSeq(content, IsDataLine)
            navigation == SelectSeq(content, IsNavigationLine)
            hints == config.FormatConfig.AddTypeHints
        IN  /\ Len(data) = 3
            /\ SeqToSet(NamesOfLines(data)) = {"id", "email", "person_id"}
            /\ LinesOf(content, "person_id") =
                    << IndentUnit \o "person_id"
                        \o (IF hints THEN ": Optional[str] = None" ELSE " = None") >>
            /\ hints => /\ LinesOf(content, "id") = <<IndentUnit \o "id: int">>
                        /\ LinesOf(content, "email") = <<IndentUnit \o "email: str">>
            /\ navigation = <<IndentUnit \o "person: Optional['Person'] = None">>

C13_Witness ==
    /\ "ContactInfo" \in DOMAIN modelContents
    /\ registry.models["ContactInfo"] = ContactInfoModel
    /\ config.FormatConfig.AddTypeHints
    /\ Len(LinesOf(modelContents["ContactInfo"], "person")) = 1

(***************************************************************************)
(* C14.  When the compilation of one definition of a kind fails (for a     *)
(* structure: a field whose type cannot be mapped), the batch of that kind *)
(* returns an error naming the failing definition and its writer is never  *)
(* invoked: nothing of that kind is handed over.  CompileModel returns no  *)
(* error, so a batch of models never fails.                                *)
(***************************************************************************)
MappableTypes ==
    {"String", "AutoIncrement", "Integer", "Float", "Boolean", "Time"}
        \cup registry.enums \cup DOMAIN registry.models \cup DOMAIN registry.structures

FailingStructures ==
    {s \in DOMAIN registry.structures :
        \E f \in DOMAIN registry.structures[s].Fields :
            registry.structures[s].Fields[f] \notin MappableTypes}

C14_FailedBatchNeverWritten ==
    /\ FailingStructures # {} =>
            /\ ~writtenStructures.called
            /\ writtenStructures.contents = <<>>
            /\ structuresResult # "ok"
    /\ structuresResult \notin {"pending", "ok"} =>
            /\ ~writtenStructures.called
            /\ batch # "structures"
            /\ \E s \in FailingStructures :
                    HasPrefix(structuresResult, "failed to compile structure " \o s \o ": ")
    /\ writtenStructures.called =>
            /\ structuresResult = "ok"
            /\ DOMAIN writtenStructures.contents = DOMAIN registry.structures
    /\ modelsResult \in {"pending", "ok"}
    /\ writtenModels.called <=> modelsResult = "ok"

C14_Witness ==
    /\ structuresResult \notin {"pending", "ok"}
    /\ DOMAIN structureContents # {}
    /\ ~writtenStructures.called
    /\ modelsResult = "ok"

(***************************************************************************)
(* C15.  Without type hints every field line of a model declaration, of a  *)
(* data field and of a navigation field alike, is an untyped placeholder:  *)
(* no field line carries a type annotation.                                *)
(***************************************************************************)
HasAnnotation(line) == Contains(line, ":")

C15_NoHintsNoAnnotation ==
    ~config.FormatConfig.AddTypeHints =>
        \A m \in DOMAIN modelContents :
            \A i \in 1..Len(modelContents[m]) :
                IsFieldLine(modelContents[m][i]) => ~HasAnnotation(modelContents[m][i])

(***************************************************************************)
(* C16.  The import section Generate renders depends only on the set of    *)
(* calls of TrackFieldType and AddTyping made on the tracker, not on their *)
(* order or repetition, and its parts come in the fixed order: pydantic    *)
(* import, typing imports (alphabetical), datetime import, enum imports    *)
(* (alphabetical), blank line, guarded model imports (alphabetical).       *)
(***************************************************************************)
\* the calls made, each once, in the order of CallPool and in its reverse
CallsOnce ==
    LET Made(call) == call \in SeqToSet(calls)
    IN  SelectSeq(CallPool, Made)

Reversed(seq) == [i \in 1..Len(seq) |-> seq[Len(seq) + 1 - i]]

UntrackedLike(it) == [NewImportTracker EXCEPT !.pydantic = it.pydantic]

\* the part of the import section a line belongs to
PartOf(line) ==
    IF HasPrefix(line, "from pydantic import ") THEN 1
    ELSE IF HasPrefix(line, "from typing import ") THEN 2
    ELSE IF line = "from datetime import datetime" THEN 3
    ELSE IF HasPrefix(line, "from ..enums.") THEN 4
    ELSE IF line = "" THEN 5
    ELSE IF line = "if TYPE_CHECKING:" THEN 6
    ELSE IF HasPrefix(line, IndentUnit \o "from .") THEN 7
    ELSE 0

\* the name a line imports, and the names a typing line imports
ImportedName(line) == SubSeq(line, IndexOf(line, " import ") + 8, Len(line))

ImportedNames(line) == Split(ImportedName(line), ", ")

PartsInFixedOrder(section) ==
    /\ \A i \in 1..Len(section) : PartOf(section[i]) # 0
    /\ \A i, j \in 1..Len(section) :
        i < j =>
            /\ PartOf(section[i]) <= PartOf(section[j])
            /\ (PartOf(section[i]) = PartOf(section[j])) =>
                    /\ PartOf(section[i]) \in {4, 7}
                    /\ StrLess(ImportedName(section[i]), ImportedName(section[j]))
    /\ \A i \in 1..Len(section) :
        PartOf(section[i]) = 2 => IsSorted(ImportedNames(section[i]))
    /\ Cardinality({i \in 1..Len(section) : PartOf(section[i]) = 5}) = 1

C16_ImportSectionOfTheSetOfCalls ==
    (calls # <<>> \/ tracker.pydantic # <<>>) =>
        /\ Generate(tracker) = Generate(Replay(UntrackedLike(tracker), CallsOnce, registry))
        /\ Generate(tracker)
                = Generate(Replay(UntrackedLike(tracker), Reversed(CallsOnce), registry))
        /\ PartsInFixedOrder(Generate(tracker))

C16_Witness ==
    /\ \E i, j \in 1..Len(calls) : i < j /\ calls[i] = calls[j]
    /\ \E i, j \in 1..Len(calls) :
            i < j /\ calls[i] = CallPool[4] /\ calls[j] = CallPool[2]
    /\ tracker.models # {}
    /\ tracker.enums # {}
    /\ Len(tracker.typing) >= 2

(***************************************************************************)
(* C17.  The content generated for a model is determined by the model, the *)
(* registry and the configuration alone: in whatever order the models are  *)
(* processed the same name-to-content mapping results, nothing recorded    *)
(* for one model shows in the content of another, and the mapping is       *)
(* handed to the writer in one call, made after every model is generated.  *)
(***************************************************************************)
\* the contents generateModelContent can return for a model of the registry
ContentsOf(modelName) ==
    {GenerateModelContent(CompileModel(registry.models[modelName], registry, pick),
                          config.FormatConfig, config.MorpheConfig, registry) :
        pick \in ThroughChoices(registry.models[modelName], registry)}

C17_ContentDeterminedByModelAlone ==
    /\ \A m \in DOMAIN modelContents :
            /\ modelContents[m] \in ContentsOf(m)
            /\ Cardinality(ContentsOf(m)) = 1
    /\ writtenModels.called =>
            /\ DOMAIN writtenModels.contents = DOMAIN registry.models
            /\ writtenModels.contents = modelContents
    /\ ~writtenModels.called => writtenModels.contents = <<>>

(***************************************************************************)
(* C18.  The import section of a generated model file is minimal: a typing *)
(* construct, the datetime import, an enum import or a guarded model       *)
(* import is present only if a field rendered in the file uses it.         *)
(***************************************************************************)
\* the annotation of a field line: what follows "<name>:"
Annotation(line) ==
    IF HasAnnotation(line)
    THEN SubSeq(line, IndexOf(line, ":") + 1, Len(line))
    ELSE ""

\* some field rendered in the file uses the name in its annotation
UsedByAField(content, name) ==
    \E i \in 1..Len(content) :
        IsFieldLine(content[i]) /\ Contains(Annotation(content[i]), name)

\* the names the lines of one part of the import section import
ImportsOfPart(content, part) ==
    UNION {SeqToSet(ImportedNames(content[i])) :
            i \in {j \in 1..Len(content) : PartOf(content[j]) = part}}

C18_ImportsMinimal ==
    \A m \in DOMAIN modelContents :
        LET content == modelContents[m]
        IN  /\ \A name \in ImportsOfPart(content, 2) \ {"TYPE_CHECKING"} :
                    UsedByAField(content, name)
            /\ "TYPE_CHECKING" \in ImportsOfPart(content, 2) =>
                    ImportsOfPart(content, 7) # {}
            /\ ImportsOfPart(content, 3) # {} => UsedByAField(content, "datetime")
            /\ \A name \in ImportsOfPart(content, 4) : UsedByAField(content, name)
            /\ \A name \in ImportsOfPart(content, 7) : UsedByAField(content, name)

(***************************************************************************)
(* C19.  Every name a generated model or structure file uses is imported   *)
(* by the file, under every configuration: each typing construct of a      *)
(* rendered annotation, datetime, TYPE_CHECKING when the guarded block is  *)
(* rendered, and every enum or model of the registry that a rendered field *)
(* refers to.                                                              *)
(***************************************************************************)
\* the names the annotations of the field lines of a file are made of
NamesUsed(content) ==
    UNION {SeqToSet(ExtractAllInnerTypes(Annotation(content[i]))) :
            i \in {j \in 1..Len(content) : IsFieldLine(content[j])}}

EveryNameImported(content) ==
    LET used == NamesUsed(content)
    IN  /\ \A name \in used \cap {"Optional", "List", "Union", "Literal", "Dict", "Any"} :
                name \in ImportsOfPart(content, 2)
        /\ "datetime" \in used => ImportsOfPart(content, 3) # {}
        /\ (\E i \in 1..Len(content) : content[i] = "if TYPE_CHECKING:") =>
                "TYPE_CHECKING" \in ImportsOfPart(content, 2)
        /\ \A name \in used \cap registry.enums : name \in ImportsOfPart(content, 4)
        /\ \A name \in used \cap DOMAIN registry.models : name \in ImportsOfPart(content, 7)

C19_EveryUsedNameImported ==
    /\ \A m \in DOMAIN modelContents : EveryNameImported(modelContents[m])
    /\ \A s \in DOMAIN structureContents : EveryNameImported(structureContents[s])

(***************************************************************************)
(* C20.  With type hints, a data field the model itself declares is        *)
(* rendered "<name>: <mapped type>", with exactly its mapped type, no      *)
(* Optional wrapper and no default, whatever its name is.                  *)
(***************************************************************************)
C20_DeclaredFieldsRequired ==
    config.FormatConfig.AddTypeHints =>
        \A m \in DOMAIN modelContents :
            \A fieldName \in DOMAIN registry.models[m].Fields :
                LinesOf(modelContents[m], ToSnakeCase(fieldName)) =
                    << IndentUnit \o ToSnakeCase(fieldName) \o ": "
                        \o GetName(GetFieldType(registry.models[m].Fields[fieldName])) >>

====
